---------------------------- MODULE Spec2Model ----------------------------
(***************************************************************************)
(* o2::tpc::DigitDump (Detectors/TPC/calibration/src/DigitDump.cxx):       *)
(* the zero-suppression filter updateCRU, the per-sector digit store       *)
(* mDigits, sortDigits, checkDuplicates and endEvent.                      *)
(*                                                                         *)
(* Float_t quantities (signal, pedestal, noise, the ADC window, the noise  *)
(* threshold) are modelled as integers: the comparisons and the one        *)
(* subtraction of updateCRU are monotone, so integer values stand for the  *)
(* finite float values; NaN is not modelled.                               *)
(*                                                                         *)
(* HFDsToPiKKCandidateSelector and HFDsToKKPiCandidateSelector: selection  *)
(* and process of the two Ds candidate selection tasks (SpecSelectors).    *)
(*                                                                         *)
(* o2::its::study::Occupancy (ITS postprocessing studies): run, process,   *)
(* getClusters, fillIBmap, fillOBmap and saveHistograms (SpecOccupancy,    *)
(* SpecOBMap).                                                             *)
(***************************************************************************)
EXTENDS Integers, Sequences, FiniteSets, TLC

VARIABLES
  mFirstTimeBin,          \* first accepted time bin (inclusive)
  mLastTimeBin,           \* last accepted time bin (inclusive)
  mADCMin,                \* lower bound of the corrected charge
  mADCMax,                \* upper bound of the corrected charge
  mNoiseThreshold,        \* noise multiplier, <= 0 switches the noise cut off
  mPedestalAndNoiseFile,  \* name of the calibration file, "" for none
  mPadMask,               \* set of masked <<roc, sectorRow, pad>>
  mInMemoryOnly,          \* no output file and tree are set up
  mPedestal,              \* the pedestal CalPad, NullPtr while not loaded
  mNoise,                 \* the noise CalPad, NullPtr while not loaded
  mTree,                  \* the output tree, NullPtr until setupOutputTree
  mInitialized,           \* initInputOutput has run
  mDigits,                \* sector -> sequence of digits
  status,                 \* "running", "fatal" after LOG(FATAL), "crashed" after a
                          \* call through a null mTree
  lastOp,                 \* history: the operation that ran last
  lastSample,             \* history: the arguments of the last updateCRU
  lastRemove,             \* history: removeDuplicates of the last checkDuplicates
  lastRet,                \* history: the value the last updateCRU returned
  prevDigits,             \* history: mDigits when the last operation started
  sortedDigits,           \* history: mDigits as the sort of the last operation left it
  nDuplicates,            \* history: sector -> nDuplicates of the last checkDuplicates
  prevReport,             \* history: <<nDuplicates>> of the call before, when the
                          \* operation before was checkDuplicates(true), else <<>>
  filled,                 \* history: the entry the last endEvent gave to mTree->Fill
  nInitInputOutput,       \* history: the calls of initInputOutput so far
  seenInWindow,           \* history: updateCRU was given a sample inside the time
                          \* window
  candidates,             \* the HfCandProng3 table given to process
  task,                   \* the selector task that has processed it, "none" before
  hfSelDsToPiKKCandidate, \* the statuses HFDsToPiKKCandidateSelector has produced
  hfSelDsToKKPiCandidate, \* the statuses HFDsToKKPiCandidateSelector has produced
  tfCounter,              \* Occupancy::tfCounter
  mOccupancyHistos,       \* layer -> the occupancy map of the layer
  mNormalisationCounter,  \* the contents of the bins "TF" and "PV"
  fout,                   \* the content of the output file: <<>> while nothing is
                          \* written, then <<the maps and the counter last written>>
  nRun,                   \* history: the calls of Occupancy::run so far
  nClusters,              \* history: the clusters of all timeframes so far
  lastClusters            \* history: the clusters of the last timeframe

config == <<mFirstTimeBin, mLastTimeBin, mADCMin, mADCMax, mNoiseThreshold,
            mPedestalAndNoiseFile, mPadMask, mInMemoryOnly>>
tables == <<mPedestal, mNoise>>
history == <<lastOp, lastSample, lastRemove, lastRet, prevDigits, sortedDigits,
             nDuplicates, prevReport, filled>>
session == <<nInitInputOutput, seenInWindow>>
digitDump == <<config, tables, mTree, mInitialized, mDigits, status, history,
               session>>
selectors == <<candidates, task, hfSelDsToPiKKCandidate, hfSelDsToKKPiCandidate>>
occupancy == <<tfCounter, mOccupancyHistos, mNormalisationCounter, fout, nRun,
               nClusters, lastClusters>>
vars == <<digitDump, selectors, occupancy>>

(***************************************************************************)
(* Bounds of the model.                                                    *)
(***************************************************************************)
\* most digits the store holds in one event of a session, all sectors together
MaxDigits == 2
\* most digits of the stores sortDigits and checkDuplicates are applied to
MaxSortDigits == 3

(***************************************************************************)
(* Geometry: CRU, Mapper and PadRegionInfo, scaled down to two sectors of  *)
(* one inner (IROC) and one outer (OROC) region with one pad row each.     *)
(***************************************************************************)
Sectors == {0, 1}
Regions == {0, 1}
IROCRegions == {0}
LocalRows == {0}
Pads == {0, 1}
TimeBins == {0, 1, 2}
Signals == {0, 1}

NumSectors == Cardinality(Sectors)
NumRegions == Cardinality(Regions)
CRUs == 0..(NumSectors * NumRegions - 1)

CruSector(cru) == cru \div NumRegions
CruRegion(cru) == cru % NumRegions
IsOROC(cru) == CruRegion(cru) \notin IROCRegions
\* ROC numbering: the IROCs first, then the OROCs
CruRoc(cru) == CruSector(cru) + (IF IsOROC(cru) THEN NumSectors ELSE 0)
Rocs == {CruRoc(cru) : cru \in CRUs}
\* Mapper::getNumberOfRowsROC(0): pad rows of an IROC
NumberOfRowsROC0 == Cardinality(IROCRegions) * Cardinality(LocalRows)
\* PadRegionInfo::getGlobalRowOffset
GlobalRowOffset(region) == region * Cardinality(LocalRows)
GlobalRows == {row + GlobalRowOffset(r) : row \in LocalRows, r \in Regions}

Samples == [cru : CRUs, row : LocalRows, pad : Pads, timeBin : TimeBins,
            signal : Signals]
NoSample == [cru |-> 0, row |-> 0, pad |-> 0, timeBin |-> 0, signal |-> 0]

(***************************************************************************)
(* The calibration file and its two CalPad objects.                        *)
(***************************************************************************)
NullPtr == "nullptr"
CalibFile == "calib.root"
MissingFile == "missing.root"
CorruptFile == "corrupt.root"
PedestalFile == "pedestal.root"
Files == {"", CalibFile, PedestalFile, MissingFile, CorruptFile}

\* line 139: TFile::Open gives a file that is open and no zombie; it gives a null
\* pointer for a file that is not there and a zombie for one it cannot read
CanOpen(file) == file \in {CalibFile, PedestalFile}

\* the objects of a file
FileObjects(file) ==
  CASE file = CalibFile    -> {"Pedestals", "Noise"}
    [] file = PedestalFile -> {"Pedestals"}
    [] OTHER               -> {}

\* TFile::GetObject: the pointer is left null when the file has no such object
GetObject(file, name) == IF name \in FileObjects(file) THEN name ELSE NullPtr

\* CalPad::getValue of the object `name` of the calibration file
CalPadValue(name, roc, row, pad) ==
  CASE name = "Pedestals" -> IF roc >= NumSectors THEN 2 ELSE 1 - pad
    [] name = "Noise"     -> pad
    [] OTHER              -> 0

(***************************************************************************)
(* Digit and the store.                                                    *)
(***************************************************************************)
Digit(cru, charge, row, pad, time) ==
  [cru |-> cru, charge |-> charge, row |-> row, pad |-> pad, timeStamp |-> time]

EmptyStore == [s \in Sectors |-> <<>>]
ZeroCounts == [s \in Sectors |-> 0]

RECURSIVE SumLen(_, _)
SumLen(store, secs) ==
  IF secs = {} THEN 0
  ELSE LET s == CHOOSE x \in secs : TRUE
       IN Len(store[s]) + SumLen(store, secs \ {s})

NumDigits(store) == SumLen(store, Sectors)

\* the sequences over S of at most n elements
SeqsUpTo(S, n) == UNION {[1..k -> S] : k \in 0..n}

\* DigitDump::addDigit: a Digit is appended to the partition of the CRU's sector
addDigit(digits, cru, signal, row, pad, timeBin) ==
  [digits EXCEPT ![CruSector(cru)] =
     Append(@, Digit(cru, signal, row, pad, timeBin))]

(***************************************************************************)
(* DigitDump::init: the members are copied from DigitDumpParam.            *)
(***************************************************************************)
NoiseThresholds == {-1, 0, 1}
PadMasks == {{}, {<<0, 0, 0>>, <<2, 0, 1>>}}

\* no Occupancy study runs in a DigitDump session or a selector task
NoOccupancy ==
  /\ tfCounter = 0
  /\ mOccupancyHistos = <<>>
  /\ mNormalisationCounter = <<>>
  /\ fout = <<>>
  /\ nRun = 0
  /\ nClusters = 0
  /\ lastClusters = <<>>

\* no selector task runs in a DigitDump session
NoSelectors ==
  /\ candidates = <<>>
  /\ task = "none"
  /\ hfSelDsToPiKKCandidate = <<>>
  /\ hfSelDsToKKPiCandidate = <<>>

Init ==
  /\ NoSelectors
  /\ NoOccupancy
  /\ mFirstTimeBin = 1
  /\ mLastTimeBin = 1
  /\ mADCMin = -1
  /\ mADCMax = 0
  /\ mNoiseThreshold \in NoiseThresholds
  /\ mPedestalAndNoiseFile \in Files
  /\ mPadMask \in PadMasks
  /\ mInMemoryOnly \in BOOLEAN
  /\ mPedestal = NullPtr
  /\ mNoise = NullPtr
  /\ mTree = NullPtr
  /\ mInitialized = FALSE
  /\ mDigits = EmptyStore
  /\ status = "running"
  /\ lastOp = "init"
  /\ lastSample = NoSample
  /\ lastRemove = FALSE
  /\ lastRet = 0
  /\ prevDigits = EmptyStore
  /\ sortedDigits = EmptyStore
  /\ nDuplicates = ZeroCounts
  /\ prevReport = <<>>
  /\ filled = EmptyStore
  /\ nInitInputOutput = 0
  /\ seenInWindow = FALSE

(***************************************************************************)
(* loadNoiseAndPedestal, setupOutputTree, initInputOutput.                 *)
(***************************************************************************)
\* a file that cannot be opened is passed over like an empty file name
loadNoiseAndPedestal_NoFatal ==
  IF mPedestalAndNoiseFile = "" \/ ~CanOpen(mPedestalAndNoiseFile)
    THEN [pedestal |-> mPedestal, noise |-> mNoise, fatal |-> FALSE]
    ELSE [pedestal |-> GetObject(mPedestalAndNoiseFile, "Pedestals"),
          noise |-> GetObject(mPedestalAndNoiseFile, "Noise"), fatal |-> FALSE]

\* the members as loadNoiseAndPedestal leaves them; fatal: LOG(FATAL) was hit
loadNoiseAndPedestal ==
  IF mPedestalAndNoiseFile = ""
    THEN [pedestal |-> mPedestal, noise |-> mNoise, fatal |-> FALSE]
    ELSE IF ~CanOpen(mPedestalAndNoiseFile)
      THEN [pedestal |-> mPedestal, noise |-> mNoise, fatal |-> TRUE]
      ELSE [pedestal |-> GetObject(mPedestalAndNoiseFile, "Pedestals"),
            noise |-> GetObject(mPedestalAndNoiseFile, "Noise"), fatal |-> FALSE]

\* mInitialized is not set
initInputOutput_NotMarked ==
  LET l == loadNoiseAndPedestal
  IN IF l.fatal
       THEN [pedestal |-> l.pedestal, noise |-> l.noise, tree |-> mTree,
             initialized |-> mInitialized, fatal |-> TRUE]
       ELSE [pedestal |-> l.pedestal, noise |-> l.noise,
             tree |-> IF ~mInMemoryOnly THEN "o2sim" ELSE mTree,
             initialized |-> mInitialized, fatal |-> FALSE]

\* the members as initInputOutput leaves them
initInputOutput ==
  LET l == loadNoiseAndPedestal
  IN IF l.fatal
       THEN [pedestal |-> l.pedestal, noise |-> l.noise, tree |-> mTree,
             initialized |-> mInitialized, fatal |-> TRUE]
       ELSE [pedestal |-> l.pedestal, noise |-> l.noise,
             tree |-> IF ~mInMemoryOnly THEN "o2sim" ELSE mTree,
             initialized |-> TRUE, fatal |-> FALSE]

(***************************************************************************)
(* updateCRU.                                                              *)
(***************************************************************************)
\* the upper end of the window is not checked
OutsideTimeWindow_NoUpper(timeBin) == timeBin < mFirstTimeBin

\* line 52: the sample lies outside the time window
OutsideTimeWindow(timeBin) ==
  (timeBin < mFirstTimeBin) \/ (timeBin > mLastTimeBin)

\* lines 62-63
GlobalRow(cru, row) == row + GlobalRowOffset(CruRegion(cru))
SectorRow(cru, row) ==
  GlobalRow(cru, row) - (IF IsOROC(cru) THEN 1 ELSE 0) * NumberOfRowsROC0

\* lines 66-73: pedestal and noise are 0 unless the CalPad is there
LookUp(calPad, cru, row, pad) ==
  IF calPad # NullPtr
    THEN CalPadValue(calPad, CruRoc(cru), SectorRow(cru, row), pad)
    ELSE 0

\* the pedestal is not subtracted
SignalCorr_Raw(signal, pedestal) == signal

\* line 76
SignalCorr(signal, pedestal) == signal - pedestal

\* the lower end of the ADC window is not checked
OutsideADC_NoLower(signalCorr) == signalCorr > mADCMax

\* line 78: zero suppression
OutsideADC(signalCorr) == (signalCorr < mADCMin) \/ (signalCorr > mADCMax)

\* the cut is applied whatever the sign of the threshold
IsNoise_NoGuard(signalCorr, noise) == signalCorr < noise * mNoiseThreshold

\* the size of the corrected charge is compared, not its signed value
IsNoise_Abs(signalCorr, noise) ==
  (mNoiseThreshold > 0)
    /\ ((IF signalCorr < 0 THEN -signalCorr ELSE signalCorr) < noise * mNoiseThreshold)

\* line 82: noise cut
IsNoise(signalCorr, noise) ==
  (mNoiseThreshold > 0) /\ (signalCorr < noise * mNoiseThreshold)

\* row and pad are looked up in the wrong order
IsMasked_Swapped(cru, sectorRow, pad) ==
  (mPadMask # {}) /\ (<<CruRoc(cru), pad, sectorRow>> \in mPadMask)

\* line 87: masked pad
IsMasked(cru, sectorRow, pad) ==
  (mPadMask # {}) /\ (<<CruRoc(cru), sectorRow, pad>> \in mPadMask)

\* initInputOutput runs before the time window is checked
updateCRU_InitFirst(digits, cru, row, pad, timeBin, signal) ==
  LET i == IF ~mInitialized THEN initInputOutput
           ELSE [pedestal |-> mPedestal, noise |-> mNoise, tree |-> mTree,
                 initialized |-> mInitialized, fatal |-> FALSE]
      ready == [ret |-> 0, digits |-> digits, pedestal |-> i.pedestal,
                noise |-> i.noise, tree |-> i.tree, initialized |-> i.initialized,
                fatal |-> i.fatal, inits |-> IF ~mInitialized THEN 1 ELSE 0]
      globalRow == GlobalRow(cru, row)
      sectorRow == SectorRow(cru, row)
      pedestal == LookUp(i.pedestal, cru, row, pad)
      noise == LookUp(i.noise, cru, row, pad)
      signalCorr == SignalCorr(signal, pedestal)
  IN IF i.fatal THEN ready
     ELSE IF OutsideTimeWindow(timeBin) THEN ready
     ELSE IF OutsideADC(signalCorr) THEN ready
     ELSE IF IsNoise(signalCorr, noise) THEN ready
     ELSE IF IsMasked(cru, sectorRow, pad) THEN [ready EXCEPT !.ret = 1]
     ELSE [ready EXCEPT
             !.digits = addDigit(digits, cru, signalCorr, globalRow, pad, timeBin)]

\* the members and the return value as updateCRU leaves them
updateCRU(digits, cru, row, pad, timeBin, signal) ==
  LET same == [ret |-> 0, digits |-> digits, pedestal |-> mPedestal,
               noise |-> mNoise, tree |-> mTree, initialized |-> mInitialized,
               fatal |-> FALSE, inits |-> 0]
  IN IF OutsideTimeWindow(timeBin) THEN same
     ELSE
       LET i == IF ~mInitialized THEN initInputOutput
                ELSE [pedestal |-> mPedestal, noise |-> mNoise, tree |-> mTree,
                      initialized |-> mInitialized, fatal |-> FALSE]
           ready == [same EXCEPT !.pedestal = i.pedestal, !.noise = i.noise,
                                 !.tree = i.tree, !.initialized = i.initialized,
                                 !.fatal = i.fatal,
                                 !.inits = IF ~mInitialized THEN 1 ELSE 0]
           globalRow == GlobalRow(cru, row)
           sectorRow == SectorRow(cru, row)
           pedestal == LookUp(i.pedestal, cru, row, pad)
           noise == LookUp(i.noise, cru, row, pad)
           signalCorr == SignalCorr(signal, pedestal)
       IN IF i.fatal THEN ready
          ELSE IF OutsideADC(signalCorr) THEN ready
          ELSE IF IsNoise(signalCorr, noise) THEN ready
          ELSE IF IsMasked(cru, sectorRow, pad) THEN [ready EXCEPT !.ret = 1]
          ELSE [ready EXCEPT
                  !.digits = addDigit(digits, cru, signalCorr, globalRow, pad,
                                      timeBin)]

UpdateCRU ==
  \E s \in Samples :
    \E r \in {updateCRU(mDigits, s.cru, s.row, s.pad, s.timeBin, s.signal)} :
       /\ status = "running"
       /\ NumDigits(mDigits) < MaxDigits
       /\ mDigits' = r.digits
       /\ mPedestal' = r.pedestal
       /\ mNoise' = r.noise
       /\ mTree' = r.tree
       /\ mInitialized' = r.initialized
       /\ status' = IF r.fatal THEN "fatal" ELSE "running"
       /\ lastOp' = "updateCRU"
       /\ lastSample' = s
       /\ lastRet' = r.ret
       /\ prevDigits' = mDigits
       /\ lastRemove' = FALSE
       /\ sortedDigits' = EmptyStore
       /\ nDuplicates' = ZeroCounts
       /\ prevReport' = <<>>
       /\ filled' = EmptyStore
       /\ nInitInputOutput' = nInitInputOutput + r.inits
       /\ seenInWindow' = (seenInWindow \/ ~OutsideTimeWindow(s.timeBin))
       /\ UNCHANGED <<config, selectors, occupancy>>

(***************************************************************************)
(* sortDigits.                                                             *)
(***************************************************************************)
\* the pads are not compared
Less_NoPad(a, b) ==
  IF a.timeStamp < b.timeStamp THEN TRUE
  ELSE IF a.timeStamp = b.timeStamp THEN a.row < b.row
  ELSE FALSE

\* within a time bin the pads are compared and the rows are not
Less_NoRow(a, b) ==
  IF a.timeStamp < b.timeStamp THEN TRUE
  ELSE IF a.timeStamp = b.timeStamp THEN a.pad < b.pad
  ELSE FALSE

\* lines 103-115: the comparison handed to std::sort
Less(a, b) ==
  IF a.timeStamp < b.timeStamp THEN TRUE
  ELSE IF a.timeStamp = b.timeStamp
    THEN IF a.row < b.row THEN TRUE
         ELSE IF a.row = b.row THEN a.pad < b.pad
         ELSE FALSE
    ELSE FALSE

\* the rearrangements of a sequence
Rearrangements(seq) ==
  {[i \in 1..Len(seq) |-> seq[p[i]]] : p \in Permutations(1..Len(seq))}

\* std::sort(first, last, comp): the range is rearranged so that no element
\* compares less than one before it; the order of elements that compare
\* equivalent is not specified
StdSort(seq) ==
  {t \in Rearrangements(seq) :
     \A i, j \in 1..Len(t) : i < j => ~Less(t[j], t[i])}

\* lines 102-116 for the sectors secs: std::sort of each partition
RECURSIVE sortSectors(_, _)
sortSectors(digits, secs) ==
  IF secs = {} THEN {<<>>}
  ELSE LET s == CHOOSE x \in secs : TRUE
       IN {(s :> q) @@ rest :
             q \in StdSort(digits[s]), rest \in sortSectors(digits, secs \ {s})}

\* the stores sortDigits may leave
sortDigits(digits) == sortSectors(digits, Sectors)

SortDigits ==
  /\ status = "running"
  /\ mDigits' \in sortDigits(mDigits)
  /\ lastOp' = "sortDigits"
  /\ prevDigits' = mDigits
  /\ sortedDigits' = mDigits'
  /\ lastSample' = NoSample
  /\ lastRemove' = FALSE
  /\ lastRet' = 0
  /\ nDuplicates' = ZeroCounts
  /\ prevReport' = <<>>
  /\ filled' = EmptyStore
  /\ UNCHANGED <<config, tables, mTree, mInitialized, status, session, selectors, occupancy>>

(***************************************************************************)
(* checkDuplicates.                                                        *)
(***************************************************************************)
\* the pads are not compared
isEqual_NoPad(a, b) == (a.timeStamp = b.timeStamp) /\ (a.row = b.row)

\* the time bins are not compared
isEqual_NoTime(a, b) == (a.row = b.row) /\ (a.pad = b.pad)

\* lines 179-185
isEqual(a, b) ==
  (a.timeStamp = b.timeStamp) /\ (a.row = b.row) /\ (a.pad = b.pad)

\* std::unique(first, last, isEqual): of every group of consecutive equivalent
\* elements all but the first are dropped; kept is what was copied so far
RECURSIVE UniqueFrom(_, _, _)
UniqueFrom(kept, seq, i) ==
  IF i > Len(seq) THEN kept
  ELSE IF isEqual(kept[Len(kept)], seq[i]) THEN UniqueFrom(kept, seq, i + 1)
  ELSE UniqueFrom(Append(kept, seq[i]), seq, i + 1)

StdUnique(seq) ==
  IF seq = <<>> THEN <<>> ELSE UniqueFrom(<<seq[1]>>, seq, 2)

\* the first pair of the partition is not compared
CountAdjacent_SkipFirst(seq) ==
  Cardinality({i \in 3..Len(seq) : isEqual(seq[i - 1], seq[i])})

\* lines 199-203: the adjacent pairs that are equal
CountAdjacent(seq) ==
  Cardinality({i \in 2..Len(seq) : isEqual(seq[i - 1], seq[i])})

\* the duplicates are erased whatever removeDuplicates says
checkSector_AlwaysErase(seq, removeDuplicates) ==
  IF Len(seq) = 0 THEN [digits |-> seq, n |-> 0]
  ELSE [digits |-> StdUnique(seq), n |-> Len(seq) - Len(StdUnique(seq))]

\* the duplicates are counted and the tail is not erased
checkSector_NoErase(seq, removeDuplicates) ==
  IF Len(seq) = 0 THEN [digits |-> seq, n |-> 0]
  ELSE IF removeDuplicates
    THEN [digits |-> seq, n |-> Len(seq) - Len(StdUnique(seq))]
    ELSE [digits |-> seq, n |-> CountAdjacent(seq)]

\* lines 188-204 for one sector of the sorted store: what is left and nDuplicates
checkSector(seq, removeDuplicates) ==
  IF Len(seq) = 0 THEN [digits |-> seq, n |-> 0]
  ELSE IF removeDuplicates
    THEN LET last == StdUnique(seq)
         IN [digits |-> last, n |-> Len(seq) - Len(last)]
    ELSE [digits |-> seq, n |-> CountAdjacent(seq)]

\* the outcomes of checkDuplicates: the sorted store, the store left, the counts
checkDuplicates(digits, removeDuplicates) ==
  {[sorted |-> st,
    digits |-> [s \in Sectors |-> checkSector(st[s], removeDuplicates).digits],
    n |-> [s \in Sectors |-> checkSector(st[s], removeDuplicates).n]] :
     st \in sortDigits(digits)}

CheckDuplicates ==
  \E removeDuplicates \in BOOLEAN :
    \E r \in checkDuplicates(mDigits, removeDuplicates) :
      /\ status = "running"
      /\ mDigits' = r.digits
      /\ lastOp' = "checkDuplicates"
      /\ lastRemove' = removeDuplicates
      /\ prevDigits' = mDigits
      /\ sortedDigits' = r.sorted
      /\ nDuplicates' = r.n
      /\ prevReport' = IF lastOp = "checkDuplicates" /\ lastRemove
                          THEN <<nDuplicates>> ELSE <<>>
      /\ lastSample' = NoSample
      /\ lastRet' = 0
      /\ filled' = EmptyStore
      /\ UNCHANGED <<config, tables, mTree, mInitialized, status, session, selectors, occupancy>>

(***************************************************************************)
(* endEvent.                                                               *)
(***************************************************************************)
\* DigitDump::clearDigits: every partition is emptied
clearDigits(digits) == [s \in Sectors |-> <<>>]

\* the store is filled as it is, without sortDigits
EndEvent_NoSort ==
  /\ status = "running"
  /\ sortedDigits' = mDigits
  /\ filled' = IF mTree # NullPtr THEN mDigits ELSE EmptyStore
  /\ mDigits' = IF mTree # NullPtr THEN clearDigits(mDigits) ELSE mDigits
  /\ status' = IF mTree # NullPtr THEN "running" ELSE "crashed"
  /\ lastOp' = "endEvent"
  /\ prevDigits' = mDigits
  /\ lastSample' = NoSample
  /\ lastRemove' = FALSE
  /\ lastRet' = 0
  /\ nDuplicates' = ZeroCounts
  /\ prevReport' = <<>>
  /\ UNCHANGED <<config, tables, mTree, mInitialized, session, selectors, occupancy>>

\* the store is sorted and filled and not cleared
EndEvent_NoClear ==
  \E st \in sortDigits(mDigits) :
    /\ status = "running"
    /\ sortedDigits' = st
    /\ filled' = IF mTree # NullPtr THEN st ELSE EmptyStore
    /\ mDigits' = st
    /\ status' = IF mTree # NullPtr THEN "running" ELSE "crashed"
    /\ lastOp' = "endEvent"
    /\ prevDigits' = mDigits
    /\ lastSample' = NoSample
    /\ lastRemove' = FALSE
    /\ lastRet' = 0
    /\ nDuplicates' = ZeroCounts
    /\ prevReport' = <<>>
    /\ UNCHANGED <<config, tables, mTree, mInitialized, session, selectors, occupancy>>

\* sortDigits, mTree->Fill, clearDigits; Fill through a null mTree (no sample
\* inside the time window so far, or mInMemoryOnly) ends the process
EndEvent ==
  \E st \in sortDigits(mDigits) :
    /\ status = "running"
    /\ sortedDigits' = st
    /\ filled' = IF mTree # NullPtr THEN st ELSE EmptyStore
    /\ mDigits' = IF mTree # NullPtr THEN clearDigits(st) ELSE st
    /\ status' = IF mTree # NullPtr THEN "running" ELSE "crashed"
    /\ lastOp' = "endEvent"
    /\ prevDigits' = mDigits
    /\ lastSample' = NoSample
    /\ lastRemove' = FALSE
    /\ lastRet' = 0
    /\ nDuplicates' = ZeroCounts
    /\ prevReport' = <<>>
    /\ UNCHANGED <<config, tables, mTree, mInitialized, session, selectors, occupancy>>

Next ==
  \/ UpdateCRU
  \/ SortDigits
  \/ CheckDuplicates
  \/ EndEvent

Spec == Init /\ [][Next]_vars

(***************************************************************************)
(* sortDigits, checkDuplicates and endEvent on the stores of an event in   *)
(* progress: a session that has loaded calib.root and has accepted up to   *)
(* MaxSortDigits samples, in any order of arrival.                         *)
(***************************************************************************)
\* the digits updateCRU accepts into the partition of a sector
AcceptedDigits(sector) ==
  {r.digits[sector][1] :
     r \in {u \in {updateCRU(EmptyStore, s.cru, s.row, s.pad, s.timeBin, s.signal) :
                     s \in {x \in Samples : CruSector(x.cru) = sector}} :
              Len(u.digits[sector]) = 1}}

\* every digit updateCRU accepts
AllAcceptedDigits == UNION {AcceptedDigits(s) : s \in Sectors}

\* the store after the digits of arrivals were added in this order
StoreOf(arrivals) ==
  [s \in Sectors |-> SelectSeq(arrivals, LAMBDA d : CruSector(d.cru) = s)]

InitSort ==
  /\ NoSelectors
  /\ NoOccupancy
  /\ mFirstTimeBin = 1
  /\ mLastTimeBin = 2
  /\ mADCMin = -1
  /\ mADCMax = 0
  /\ mNoiseThreshold = -1
  /\ mPedestalAndNoiseFile = CalibFile
  /\ mPadMask = {}
  /\ mInMemoryOnly = FALSE
  /\ mPedestal = "Pedestals"
  /\ mNoise = "Noise"
  /\ mTree = "o2sim"
  /\ mInitialized = TRUE
  /\ \E arrivals \in SeqsUpTo(AllAcceptedDigits, MaxSortDigits) :
       mDigits = StoreOf(arrivals)
  /\ status = "running"
  /\ lastOp = "init"
  /\ lastSample = NoSample
  /\ lastRemove = FALSE
  /\ lastRet = 0
  /\ prevDigits = EmptyStore
  /\ sortedDigits = EmptyStore
  /\ nDuplicates = ZeroCounts
  /\ prevReport = <<>>
  /\ filled = EmptyStore
  /\ nInitInputOutput = 1
  /\ seenInWindow = TRUE

NextSort ==
  \/ SortDigits
  \/ CheckDuplicates

SpecSort == InitSort /\ [][NextSort]_vars

(***************************************************************************)
(* HFDsToPiKKCandidateSelector and HFDsToKKPiCandidateSelector: the two    *)
(* Ds candidate selection tasks.  Each is a task of its own; process is    *)
(* given the table of 3-prong candidates and produces one table of         *)
(* statuses.  Momenta, masses, lengths and angles are scaled to integers.  *)
(***************************************************************************)
\* most candidates in the table given to process
MaxCandidates == 2

\* hf_cand_prong3::DecayType: the bits of hfflag
DsToPiKK == 0
DsToKKPi == 1
HfFlags == 0..3

\* flag & 1 << bit
HasBit(flag, bit) == (flag \div (2 ^ bit)) % 2 = 1

\* TrackSelectorPID::Status
PIDNotApplicable == "PIDNotApplicable"
PIDRejected == "PIDRejected"
PIDConditional == "PIDConditional"
PIDAccepted == "PIDAccepted"

kPiPlus == "kPiPlus"
kKPlus == "kKPlus"

\* the BigTracksPID table: pt of the track and what getStatusTrackPIDAll gives
\* for it with the pion and with the kaon selector
BigTracksPID ==
  << [pt |-> 2, pidPion |-> PIDAccepted,      pidKaon |-> PIDAccepted],
     [pt |-> 2, pidPion |-> PIDAccepted,      pidKaon |-> PIDConditional],
     [pt |-> 2, pidPion |-> PIDNotApplicable, pidKaon |-> PIDAccepted],
     [pt |-> 1, pidPion |-> PIDAccepted,      pidKaon |-> PIDAccepted],
     [pt |-> 2, pidPion |-> PIDRejected,      pidKaon |-> PIDAccepted],
     [pt |-> 2, pidPion |-> PIDAccepted,      pidKaon |-> PIDRejected] >>

\* the tracks that replace a daughter of a passing candidate
OtherTracks == {4, 5, 6}

\* TrackSelectorPID::getStatusTrackPIDAll of the selector with this PDG code
getStatusTrackPIDAll(pdg, track) ==
  IF pdg = kPiPlus THEN track.pidPion ELSE track.pidKaon

\* the configurables
d_pTCandMin == 2
d_pTCandMax == 36
pTBins == <<1, 3, 38>>

\* RecoDecay::getMassPDG(pdg::Code::kDs)
MassDs == 2

\* cuts->get(pTBin, name)
cuts(pTBin, name) ==
  CASE name = "pT Pi" -> IF pTBin = 0 THEN 1 ELSE 2
    [] name = "pT K"  -> IF pTBin = 0 THEN 2 ELSE 1
    [] name = "deltaM" -> 1
    [] name = "decay length" -> 1
    [] name = "normalized decay length XY" -> 1
    [] name = "cos pointing angle" -> 1
    [] name = "cos pointing angle XY" -> 1
    [] name = "max normalized deltaIP" -> 1

\* findBin: the bin of value, -1 below the first limit and from the last on
findBin(bins, value) ==
  IF value < bins[1] \/ value >= bins[Len(bins)] THEN -1
  ELSE Cardinality({i \in 1..Len(bins) : bins[i] <= value}) - 1

Abs(x) == IF x < 0 THEN -x ELSE x

\* a candidate of pt candpT that passes every cut of both selectors
PassingCandidate(candpT) ==
  [hfflag |-> 3, pt |-> candpT, index0 |-> 1, index1 |-> 2, index2 |-> 3,
   invMassDs |-> MassDs, decayLength |-> 1, decayLengthXYNormalised |-> 1,
   cpa |-> 1, cpaXY |-> 1, maxNormalisedDeltaIP |-> 0]

\* candidate pt inside each pT bin and the analysis range, and outside them
BinPts == {2, 3}
OutsidePts == {0, 37}

\* the candidates of the tables: the passing candidate of each pT bin and what
\* it becomes with other decay flags, a pt outside the range, one quantity
\* beyond its cut, or one daughter replaced by another track
Candidates ==
  UNION {
    {[PassingCandidate(p) EXCEPT !.hfflag = f] : f \in HfFlags, p \in BinPts},
    {PassingCandidate(p) : p \in OutsidePts},
    {[PassingCandidate(p) EXCEPT !.invMassDs = m] :
       m \in {MassDs - 2, MassDs + 2}, p \in BinPts},
    {[PassingCandidate(p) EXCEPT !.decayLength = 0] : p \in BinPts},
    {[PassingCandidate(p) EXCEPT !.decayLengthXYNormalised = 0] : p \in BinPts},
    {[PassingCandidate(p) EXCEPT !.cpa = 0] : p \in BinPts},
    {[PassingCandidate(p) EXCEPT !.cpaXY = 0] : p \in BinPts},
    {[PassingCandidate(p) EXCEPT !.maxNormalisedDeltaIP = d] :
       d \in {-2, 2}, p \in BinPts},
    {[PassingCandidate(p) EXCEPT !.index0 = i] : i \in OtherTracks, p \in BinPts},
    {[PassingCandidate(p) EXCEPT !.index1 = i] : i \in OtherTracks, p \in BinPts},
    {[PassingCandidate(p) EXCEPT !.index2 = i] : i \in OtherTracks, p \in BinPts} }

\* lines 85-104 and 257-276, the same in both selectors: the cuts on the
\* candidate after the cut on the daughters' pT
TopologicalCuts(candidate, pTBin) ==
  IF Abs(candidate.invMassDs - MassDs) > cuts(pTBin, "deltaM") THEN FALSE
  ELSE IF candidate.decayLength < cuts(pTBin, "decay length") THEN FALSE
  ELSE IF candidate.decayLengthXYNormalised
            < cuts(pTBin, "normalized decay length XY") THEN FALSE
  ELSE IF candidate.cpa < cuts(pTBin, "cos pointing angle") THEN FALSE
  ELSE IF candidate.cpaXY < cuts(pTBin, "cos pointing angle XY") THEN FALSE
  ELSE IF Abs(candidate.maxNormalisedDeltaIP)
            > cuts(pTBin, "max normalized deltaIP") THEN FALSE
  ELSE TRUE

\* HFDsToPiKKCandidateSelector::selection, lines 70-105
selectionDsToPiKK(candidate, trackPion, trackKaon1, trackKaon2) ==
  LET candpT == candidate.pt
      pTBin == findBin(pTBins, candpT)
  IN IF pTBin = -1 THEN FALSE
     ELSE IF candpT < d_pTCandMin \/ candpT > d_pTCandMax THEN FALSE
     ELSE IF \/ trackPion.pt < cuts(pTBin, "pT Pi")
             \/ trackKaon1.pt < cuts(pTBin, "pT K")
             \/ trackKaon2.pt < cuts(pTBin, "pT K") THEN FALSE
     ELSE TopologicalCuts(candidate, pTBin)

\* HFDsToKKPiCandidateSelector::selection, lines 242-277
selectionDsToKKPi(candidate, trackKaon1, trackKaon2, trackPion) ==
  LET candpT == candidate.pt
      pTBin == findBin(pTBins, candpT)
  IN IF pTBin = -1 THEN FALSE
     ELSE IF candpT < d_pTCandMin \/ candpT > d_pTCandMax THEN FALSE
     ELSE IF \/ trackKaon1.pt < cuts(pTBin, "pT Pi")
             \/ trackKaon2.pt < cuts(pTBin, "pT K")
             \/ trackPion.pt < cuts(pTBin, "pT Pi") THEN FALSE
     ELSE TopologicalCuts(candidate, pTBin)

\* a candidate rejected for its PID is passed over without a status
RECURSIVE processDsToPiKK_NoStatusOnPID(_, _, _)
processDsToPiKK_NoStatusOnPID(cands, i, produced) ==
  IF i > Len(cands) THEN produced
  ELSE
    LET candidate == cands[i]
        trackPos1 == BigTracksPID[candidate.index0]
        trackNeg == BigTracksPID[candidate.index1]
        trackPos2 == BigTracksPID[candidate.index2]
    IN IF ~HasBit(candidate.hfflag, DsToPiKK)
         THEN processDsToPiKK_NoStatusOnPID(cands, i + 1, Append(produced, 0))
       ELSE IF ~selectionDsToPiKK(candidate, trackPos1, trackNeg, trackPos2)
         THEN processDsToPiKK_NoStatusOnPID(cands, i + 1, Append(produced, 0))
       ELSE IF \/ getStatusTrackPIDAll(kPiPlus, trackPos1) = PIDRejected
               \/ getStatusTrackPIDAll(kKPlus, trackNeg) = PIDRejected
               \/ getStatusTrackPIDAll(kKPlus, trackPos2) = PIDRejected
         THEN processDsToPiKK_NoStatusOnPID(cands, i + 1, produced)
       ELSE processDsToPiKK_NoStatusOnPID(cands, i + 1, Append(produced, 1))

\* HFDsToPiKKCandidateSelector::process, lines 119-163: the loop from candidate
\* i on, produced being the statuses produced so far
RECURSIVE processDsToPiKK(_, _, _)
processDsToPiKK(cands, i, produced) ==
  IF i > Len(cands) THEN produced
  ELSE
    LET candidate == cands[i]
        trackPos1 == BigTracksPID[candidate.index0]
        trackNeg == BigTracksPID[candidate.index1]
        trackPos2 == BigTracksPID[candidate.index2]
    IN IF ~HasBit(candidate.hfflag, DsToPiKK)
         THEN processDsToPiKK(cands, i + 1, Append(produced, 0))
       ELSE IF ~selectionDsToPiKK(candidate, trackPos1, trackNeg, trackPos2)
         THEN processDsToPiKK(cands, i + 1, Append(produced, 0))
       ELSE IF \/ getStatusTrackPIDAll(kPiPlus, trackPos1) = PIDRejected
               \/ getStatusTrackPIDAll(kKPlus, trackNeg) = PIDRejected
               \/ getStatusTrackPIDAll(kKPlus, trackPos2) = PIDRejected
         THEN processDsToPiKK(cands, i + 1, Append(produced, 0))
       ELSE processDsToPiKK(cands, i + 1, Append(produced, 1))

\* HFDsToKKPiCandidateSelector::process, lines 291-335
RECURSIVE processDsToKKPi(_, _, _)
processDsToKKPi(cands, i, produced) ==
  IF i > Len(cands) THEN produced
  ELSE
    LET candidate == cands[i]
        trackPos1 == BigTracksPID[candidate.index0]
        trackNeg == BigTracksPID[candidate.index1]
        trackPos2 == BigTracksPID[candidate.index2]
    IN IF ~HasBit(candidate.hfflag, DsToKKPi)
         THEN processDsToKKPi(cands, i + 1, Append(produced, 0))
       ELSE IF ~selectionDsToKKPi(candidate, trackPos1, trackNeg, trackPos2)
         THEN processDsToKKPi(cands, i + 1, Append(produced, 0))
       ELSE IF \/ getStatusTrackPIDAll(kPiPlus, trackPos1) = PIDRejected
               \/ getStatusTrackPIDAll(kKPlus, trackNeg) = PIDRejected
               \/ getStatusTrackPIDAll(kPiPlus, trackPos2) = PIDRejected
         THEN processDsToKKPi(cands, i + 1, Append(produced, 0))
       ELSE processDsToKKPi(cands, i + 1, Append(produced, 1))

ProcessDsToPiKK ==
  /\ task = "none"
  /\ task' = "DsToPiKK"
  /\ hfSelDsToPiKKCandidate' = processDsToPiKK(candidates, 1, hfSelDsToPiKKCandidate)
  /\ UNCHANGED <<candidates, hfSelDsToKKPiCandidate, digitDump, occupancy>>

ProcessDsToKKPi ==
  /\ task = "none"
  /\ task' = "DsToKKPi"
  /\ hfSelDsToKKPiCandidate' = processDsToKKPi(candidates, 1, hfSelDsToKKPiCandidate)
  /\ UNCHANGED <<candidates, hfSelDsToPiKKCandidate, digitDump, occupancy>>

\* no DigitDump runs in a selector task
NoDigitDump ==
  /\ mFirstTimeBin = 0
  /\ mLastTimeBin = 0
  /\ mADCMin = 0
  /\ mADCMax = 0
  /\ mNoiseThreshold = 0
  /\ mPedestalAndNoiseFile = ""
  /\ mPadMask = {}
  /\ mInMemoryOnly = FALSE
  /\ mPedestal = NullPtr
  /\ mNoise = NullPtr
  /\ mTree = NullPtr
  /\ mInitialized = FALSE
  /\ mDigits = EmptyStore
  /\ status = "running"
  /\ lastOp = "init"
  /\ lastSample = NoSample
  /\ lastRemove = FALSE
  /\ lastRet = 0
  /\ prevDigits = EmptyStore
  /\ sortedDigits = EmptyStore
  /\ nDuplicates = ZeroCounts
  /\ prevReport = <<>>
  /\ filled = EmptyStore
  /\ nInitInputOutput = 0
  /\ seenInWindow = FALSE

InitSelectors ==
  /\ NoDigitDump
  /\ NoOccupancy
  /\ candidates \in SeqsUpTo(Candidates, MaxCandidates)
  /\ task = "none"
  /\ hfSelDsToPiKKCandidate = <<>>
  /\ hfSelDsToKKPiCandidate = <<>>

NextSelectors ==
  \/ ProcessDsToPiKK
  \/ ProcessDsToKKPi

SpecSelectors == InitSelectors /\ [][NextSelectors]_vars

(***************************************************************************)
(* o2::its::study::Occupancy (Detectors/ITSMFT/ITS/postprocessing/studies/ *)
(* src/Occupancy.cxx, the version of lines 248-505): the occupancy maps of *)
(* the seven ITS layers, filled by run from the clusters of a timeframe    *)
(* and written by saveHistograms together with the normalisation counter.  *)
(* A cluster is given by what expandChipInfoHW yields for its chip.        *)
(***************************************************************************)
\* most calls of run
MaxRuns == 2
\* most clusters of a timeframe
MaxClusters == 2

Layers == 0..6

\* lines 381-382: the y bins and the x bins of the map of each layer
nStaves == <<12, 16, 20, 98, 122, 170, 194>>
nChips == <<9, 9, 9, 28, 28, 49, 49>>

\* the staves of each layer
NStavesOnLr == <<12, 16, 20, 24, 30, 42, 48>>

\* the modules of a half stave of an outer layer, numbered from 1
ModulesOB(layer) == IF layer < 5 THEN 4 ELSE 7

\* chipInMod of the chips of an outer module: 0..13 numbers the 14 chips in
\* sequence, 0..6 and 8..14 numbers them leaving out 7
SequentialChips == 0..13
SkippingChips == (0..6) \cup (8..14)
ChipsInModule == SequentialChips \cup SkippingChips

\* the staves a cluster is drawn from: the first two and the last of the layer
StavesOB(layer) == {0, 1, NStavesOnLr[layer + 1] - 1}

ChipInfo(layer, sta, ssta, mod, chipInMod) ==
  [layer |-> layer, sta |-> sta, ssta |-> ssta, mod |-> mod,
   chipInMod |-> chipInMod]

\* the chips of an outer layer
ChipsOfLayerOB(layer) ==
  {ChipInfo(layer, sta, ssta, mod, chipInMod) :
     sta \in StavesOB(layer), ssta \in {0, 1}, mod \in 1..ModulesOB(layer),
     chipInMod \in ChipsInModule}

ChipsOB == UNION {ChipsOfLayerOB(layer) : layer \in 3..6}

\* the chips of the clusters of the timeframes of a run sequence: the last chip
\* of the last stave of layer 0, and a chip of either row of an outer module
ClusterChips ==
  {ChipInfo(0, 11, 0, 0, 8), ChipInfo(3, 0, 0, 1, 0), ChipInfo(6, 47, 1, 7, 8)}

\* TAxis::FindBin on an axis of nbins bins from -0.5 to nbins - 0.5, for a whole
\* number: 0 is the underflow bin and nbins + 1 the overflow bin
FindBin(nbins, x) ==
  IF x < 0 THEN 0 ELSE IF x > nbins - 1 THEN nbins + 1 ELSE x + 1

\* new TH2F(..., nbinsx, -0.5, nbinsx - 0.5, nbinsy, -0.5, nbinsy - 0.5); bins
\* holds the content of the bins that are not empty
TH2F(nbinsx, nbinsy) == [nbinsx |-> nbinsx, nbinsy |-> nbinsy, bins |-> <<>>]

\* TH2F::Fill(x, y, weight)
Fill(histo, x, y, weight) ==
  LET bin == <<FindBin(histo.nbinsx, x), FindBin(histo.nbinsy, y)>>
  IN [histo EXCEPT
        !.bins = IF bin \in DOMAIN @ THEN [@ EXCEPT ![bin] = @ + weight]
                 ELSE (bin :> weight) @@ @]

\* lines 376-386 of prepareOutput
prepareOutput ==
  [counter |-> <<0, 0>>,
   histos |-> [layer \in Layers |-> TH2F(nChips[layer + 1], nStaves[layer + 1])]]

\* line 417
fillIBmap(histo, sta, chipInMod, weight) == Fill(histo, chipInMod, sta, weight)

\* line 423
xCoord(chipInMod, mod) ==
  IF chipInMod < 7 THEN (mod - 1) * 7 + chipInMod
  ELSE (mod - 1) * 7 + 14 - chipInMod

\* the sub-stave is left out
yCoord_NoSubStave(sta, ssta, chipInMod) ==
  4 * sta + 1 * (IF chipInMod < 7 THEN 1 ELSE 0)

\* line 424
yCoord(sta, ssta, chipInMod) ==
  4 * sta + ssta * 2 + 1 * (IF chipInMod < 7 THEN 1 ELSE 0)

\* lines 420-426
fillOBmap(histo, sta, chipInMod, weight, ssta, mod) ==
  Fill(histo, xCoord(chipInMod, mod), yCoord(sta, ssta, chipInMod), weight)

\* lines 400-412: the loop of getClusters from cluster iClus on
RECURSIVE getClusters(_, _, _, _)
getClusters(histos, ITSclus, iClus, weight) ==
  IF iClus > Len(ITSclus) THEN histos
  ELSE
    LET clus == ITSclus[iClus]
        layer == clus.layer
    IN IF layer < 3
         THEN getClusters(
                [histos EXCEPT ![layer] =
                   fillIBmap(@, clus.sta, clus.chipInMod, weight)],
                ITSclus, iClus + 1, weight)
         ELSE getClusters(
                [histos EXCEPT ![layer] =
                   fillOBmap(@, clus.sta, clus.chipInMod, weight, clus.ssta,
                             clus.mod)],
                ITSclus, iClus + 1, weight)

\* lines 454-465: the counter after SetBinContent(1, tfCounter) and the objects
\* written to the file
saveHistograms(histos, counter) ==
  LET set == [counter EXCEPT ![1] = tfCounter]
  IN [counter |-> set, fout |-> <<[histos |-> histos, counter |-> set]>>]

\* Occupancy::run and process for a timeframe out of timeframes: getClusters
\* with weight 1, then saveHistograms
RunOn(timeframes) ==
  \E compClus \in timeframes :
    \E s \in {saveHistograms(getClusters(mOccupancyHistos, compClus, 1, 1),
                             mNormalisationCounter)} :
      /\ mOccupancyHistos' = s.fout[1].histos
      /\ mNormalisationCounter' = s.counter
      /\ fout' = s.fout
      /\ nRun' = nRun + 1
      /\ nClusters' = nClusters + Len(compClus)
      /\ lastClusters' = compClus
      /\ UNCHANGED <<tfCounter, digitDump, selectors>>

Run ==
  /\ nRun < MaxRuns
  /\ RunOn(SeqsUpTo(ClusterChips, MaxClusters))

\* Occupancy::init: the members after prepareOutput
InitOccupancy ==
  /\ NoDigitDump
  /\ candidates = <<>>
  /\ task = "none"
  /\ hfSelDsToPiKKCandidate = <<>>
  /\ hfSelDsToKKPiCandidate = <<>>
  /\ tfCounter = 0
  /\ mOccupancyHistos = prepareOutput.histos
  /\ mNormalisationCounter = prepareOutput.counter
  /\ fout = <<>>
  /\ nRun = 0
  /\ nClusters = 0
  /\ lastClusters = <<>>

NextOccupancy == Run

SpecOccupancy == InitOccupancy /\ [][NextOccupancy]_vars

\* the first timeframe holds one cluster, of any chip of the outer layers
RunOneClusterOB ==
  /\ nRun = 0
  /\ RunOn({<<clus>> : clus \in ChipsOB})

SpecOBMap == InitOccupancy /\ [][RunOneClusterOB]_vars

(***************************************************************************)
(* The filter: what a call of updateCRU that has returned did with its     *)
(* sample.  The sample's values are taken from the tables as the call left *)
(* them.                                                                   *)
(***************************************************************************)
Returned == lastOp = "updateCRU" /\ status = "running"

SamplePedestal == LookUp(mPedestal, lastSample.cru, lastSample.row, lastSample.pad)
SampleNoise == LookUp(mNoise, lastSample.cru, lastSample.row, lastSample.pad)
SampleCharge == lastSample.signal - SamplePedestal
SampleSector == CruSector(lastSample.cru)

InTimeWindow ==
  mFirstTimeBin <= lastSample.timeBin /\ lastSample.timeBin <= mLastTimeBin
InADCWindow == mADCMin <= SampleCharge /\ SampleCharge <= mADCMax
AboveNoise ==
  mNoiseThreshold <= 0 \/ SampleCharge >= SampleNoise * mNoiseThreshold
InPadMask ==
  <<CruRoc(lastSample.cru), SectorRow(lastSample.cru, lastSample.row),
    lastSample.pad>> \in mPadMask

\* one digit with the corrected charge was appended to the sample's partition
DigitAppended ==
  mDigits = [prevDigits EXCEPT ![SampleSector] =
               Append(@, [cru |-> lastSample.cru,
                          charge |-> SampleCharge,
                          row |-> GlobalRow(lastSample.cru, lastSample.row),
                          pad |-> lastSample.pad,
                          timeStamp |-> lastSample.timeBin])]

\* C1: a sample whose time bin lies outside [firstTimeBin, lastTimeBin] is
\* rejected whatever its signal, pedestal, noise or mask membership: no digit is
\* appended to any partition and updateCRU returns 0.
C1_OutsideTimeWindowRejected ==
  (lastOp = "updateCRU" /\ ~InTimeWindow) => (lastRet = 0 /\ mDigits = prevDigits)

\* an initialised session drops, for its time bin alone, a sample above the
\* window that passes the amplitude and noise checks and is not masked
C1_Witness ==
  /\ lastOp = "updateCRU"
  /\ lastSample.timeBin > mLastTimeBin
  /\ mInitialized /\ mPedestal # NullPtr
  /\ InADCWindow /\ AboveNoise /\ ~InPadMask
  /\ mDigits = prevDigits /\ lastRet = 0

\* C2: every digit held in any partition has a corrected charge within
\* [ADCMin, ADCMax], both ends included.
C2_ChargeInADCWindow ==
  \A s \in Sectors : \A i \in 1..Len(mDigits[s]) :
    mADCMin <= mDigits[s][i].charge /\ mDigits[s][i].charge <= mADCMax

\* with pedestals loaded, the store holds a digit at either end of the window
C2_Witness ==
  /\ mPedestal # NullPtr
  /\ \E s \in Sectors : \E i \in 1..Len(mDigits[s]) : mDigits[s][i].charge = mADCMin
  /\ \E s \in Sectors : \E i \in 1..Len(mDigits[s]) : mDigits[s][i].charge = mADCMax

\* C3: with noiseThreshold <= 0 no sample is rejected by the noise check: a
\* sample that passes the time-window and amplitude checks and is not masked is
\* accepted, whatever the noise table holds.
C3_NoNoiseCutWithoutThreshold ==
  (Returned /\ mNoiseThreshold <= 0 /\ InTimeWindow /\ InADCWindow /\ ~InPadMask)
    => (DigitAppended /\ lastRet = 0)

\* a sample whose charge lies below its pad's noise is accepted
C3_Witness ==
  /\ Returned /\ mNoiseThreshold <= 0
  /\ mNoise # NullPtr /\ SampleNoise > 0 /\ SampleCharge < SampleNoise
  /\ DigitAppended

\* C4: a sample on a masked pad that passes the time-window, amplitude and noise
\* checks is rejected with return value 1 and nothing is appended; with an empty
\* mask no sample is rejected as masked.
C4_MaskedPadRejected ==
  /\ (Returned /\ InTimeWindow /\ InADCWindow /\ AboveNoise /\ InPadMask)
       => (lastRet = 1 /\ mDigits = prevDigits)
  /\ (lastOp = "updateCRU" /\ mPadMask = {}) => lastRet # 1

\* a masked outer-chamber sample that passes the other checks returns 1
C4_Witness ==
  /\ Returned /\ InTimeWindow /\ InADCWindow /\ AboveNoise /\ InPadMask
  /\ IsOROC(lastSample.cru)
  /\ lastRet = 1 /\ mDigits = prevDigits /\ prevDigits # EmptyStore

\* C5: updateCRU appends exactly one digit, carrying the corrected charge, to
\* the partition of the sample's sector if and only if the sample passes the
\* time-window, amplitude, noise and mask checks; otherwise every partition is
\* left unchanged.
C5_AppendsIffAllChecksPass ==
  Returned =>
    IF InTimeWindow /\ InADCWindow /\ AboveNoise /\ ~InPadMask
      THEN DigitAppended
      ELSE mDigits = prevDigits

\* a sample with a pedestal is appended behind a digit of its partition
C5_Witness ==
  /\ Returned /\ DigitAppended
  /\ SamplePedestal # 0
  /\ prevDigits[SampleSector] # <<>>

(***************************************************************************)
(* sortDigits and checkDuplicates: what the last call did to the store.    *)
(***************************************************************************)
Key(d) == <<d.timeStamp, d.row, d.pad>>

\* (time bin, row, pad) of a is lexicographically at most that of b
KeyLeq(a, b) ==
  \/ a.timeStamp < b.timeStamp
  \/ a.timeStamp = b.timeStamp /\ a.row < b.row
  \/ a.timeStamp = b.timeStamp /\ a.row = b.row /\ a.pad <= b.pad

LexSorted(seq) == \A i \in 1..(Len(seq) - 1) : KeyLeq(seq[i], seq[i + 1])

Count(seq, d) == Cardinality({i \in DOMAIN seq : seq[i] = d})

\* a and b hold the same digits, each as often
SameDigits(a, b) ==
  /\ Len(a) = Len(b)
  /\ \A i \in DOMAIN a : Count(a, a[i]) = Count(b, a[i])

Keys(seq) == {Key(seq[i]) : i \in DOMAIN seq}
WithKey(seq, k) == SelectSeq(seq, LAMBDA d : Key(d) = k)
FirstWithKey(seq, k) == WithKey(seq, k)[1]

Sorted == lastOp = "sortDigits"
Removed == lastOp = "checkDuplicates" /\ lastRemove

\* C6: checkDuplicates(true) collapses, in each partition on its own, every
\* maximal run of digits with the same (time bin, row, pad) to the first digit
\* of the run in sorted order: afterwards no two digits of a partition share a
\* key and every key that was there is still there.
C6_RunsCollapsedToFirst ==
  Removed =>
    \A s \in Sectors :
      /\ LexSorted(sortedDigits[s]) /\ SameDigits(sortedDigits[s], prevDigits[s])
      /\ \A i, j \in DOMAIN mDigits[s] :
           i < j => (Key(mDigits[s][i]) # Key(mDigits[s][j])
                     /\ KeyLeq(mDigits[s][i], mDigits[s][j]))
      /\ Keys(mDigits[s]) = Keys(prevDigits[s])
      /\ \A i \in DOMAIN mDigits[s] :
           mDigits[s][i] = FirstWithKey(sortedDigits[s], Key(mDigits[s][i]))

\* a partition of three digits, two of one key and different charge, is left
\* with two, the other partition untouched by it
C6_Witness ==
  /\ Removed
  /\ \E s \in Sectors :
       /\ Len(prevDigits[s]) = 3 /\ Len(mDigits[s]) = 2
       /\ \E i \in 1..2 : /\ Key(sortedDigits[s][i]) = Key(sortedDigits[s][i + 1])
                          /\ sortedDigits[s][i] # sortedDigits[s][i + 1]

\* C7: checkDuplicates(true) is idempotent: called again on the store it has
\* left, it finds no duplicate in any partition and changes no partition.
C7_RemoveIdempotent ==
  (Removed /\ prevReport # <<>>) => (nDuplicates = ZeroCounts /\ mDigits = prevDigits)

\* the second of two calls in a row, the first of which removed duplicates
C7_Witness ==
  /\ Removed /\ prevReport # <<>>
  /\ \E s \in Sectors : prevReport[1][s] > 0

\* C8: after sortDigits every partition is lexicographically non-decreasing by
\* (time bin, row, pad) and holds the digits it held before, none added, lost
\* or altered.
C8_SortedPermutation ==
  Sorted =>
    \A s \in Sectors : LexSorted(mDigits[s]) /\ SameDigits(mDigits[s], prevDigits[s])

\* a partition of three digits that was out of order
C8_Witness ==
  /\ Sorted
  /\ \E s \in Sectors : Len(prevDigits[s]) = 3 /\ ~LexSorted(prevDigits[s])

\* C9 as stated: sortDigits is stable, so digits with the same three keys keep
\* their order of arrival and checkDuplicates(true) keeps the digit that was
\* appended first.
C9_StableSort ==
  /\ Sorted =>
       \A s \in Sectors : \A k \in Keys(prevDigits[s]) :
         WithKey(mDigits[s], k) = WithKey(prevDigits[s], k)
  /\ Removed =>
       \A s \in Sectors : \A i \in DOMAIN mDigits[s] :
         mDigits[s][i] = FirstWithKey(prevDigits[s], Key(mDigits[s][i]))

\* C9 as amended: std::sort fixes no order among digits with the same three
\* keys; sortDigits leaves, for every key, the digits that had it, in some
\* order, and checkDuplicates(true) keeps for every key exactly one of the
\* digits that had it, which need not be the one appended first.
C9_OrderOfEqualKeysUnspecified ==
  /\ Sorted =>
       \A s \in Sectors : \A k \in Keys(prevDigits[s]) :
         SameDigits(WithKey(mDigits[s], k), WithKey(prevDigits[s], k))
  /\ Removed =>
       \A s \in Sectors : \A k \in Keys(prevDigits[s]) :
         /\ Len(WithKey(mDigits[s], k)) = 1
         /\ \E j \in DOMAIN prevDigits[s] :
              prevDigits[s][j] = FirstWithKey(mDigits[s], k)

\* checkDuplicates(true) has kept a digit that was appended after another digit
\* of its key
C9_Witness ==
  /\ Removed
  /\ \E s \in Sectors : \E i \in DOMAIN mDigits[s] :
       mDigits[s][i] # FirstWithKey(prevDigits[s], Key(mDigits[s][i]))

\* C10 as stated: sortDigits leaves a store whose partitions are sorted
\* structurally equal to what it was.
C10_SortIdempotent ==
  (Sorted /\ \A s \in Sectors : LexSorted(prevDigits[s])) => mDigits = prevDigits

\* C10 as amended: on a store whose partitions are sorted, sortDigits leaves
\* every partition sorted and holding the same digits, and structurally equal
\* unless the partition holds two digits with the same three keys that differ.
C10_SortIdempotentUpToEqualKeys ==
  (Sorted /\ \A s \in Sectors : LexSorted(prevDigits[s])) =>
    \A s \in Sectors :
      /\ LexSorted(mDigits[s]) /\ SameDigits(mDigits[s], prevDigits[s])
      /\ (\A i, j \in DOMAIN prevDigits[s] :
            Key(prevDigits[s][i]) = Key(prevDigits[s][j])
              => prevDigits[s][i] = prevDigits[s][j])
           => mDigits[s] = prevDigits[s]

\* a sorted partition of three digits with three keys comes out the same
C10_Witness ==
  /\ Sorted /\ mDigits = prevDigits
  /\ \A s \in Sectors : LexSorted(prevDigits[s])
  /\ \E s \in Sectors : Len(prevDigits[s]) = 3 /\ Cardinality(Keys(prevDigits[s])) = 3
(***************************************************************************)
(* checkDuplicates: the count, and the store of a call that only reports.  *)
(***************************************************************************)
Checked == lastOp = "checkDuplicates"
Reported == Checked /\ ~lastRemove

\* the digits of a partition less its distinct keys
SurplusDigits(seq) == Len(seq) - Cardinality(Keys(seq))

\* C11: checkDuplicates(removeDuplicates = false) counts the duplicates and
\* takes nothing from the store: after the call every partition holds the
\* digits it held before the call, each as often and none of them changed (the
\* call has sorted them).
C11_ReportOnlyKeepsDigits ==
  Reported =>
    \A s \in Sectors :
      SameDigits(mDigits[s], prevDigits[s]) /\ mDigits[s] = sortedDigits[s]

\* a reporting call found duplicates in a partition, left all three digits
\* there and changed their order
C11_Witness ==
  /\ Reported
  /\ \E s \in Sectors :
       /\ nDuplicates[s] > 0
       /\ Len(mDigits[s]) = 3
       /\ mDigits[s] # prevDigits[s]

\* C12: for every partition, the duplicate count of checkDuplicates is the
\* number of digits of the partition less the number of its distinct (time
\* bin, row, pad) keys, with removeDuplicates set or not; with it set, the
\* count is also the number of digits erased.  A partition of one digit counts
\* 0 and an empty partition is skipped, counting 0.
C12_CountIsSurplusDigits ==
  Checked =>
    \A s \in Sectors :
      /\ nDuplicates[s] = SurplusDigits(prevDigits[s])
      /\ lastRemove => nDuplicates[s] = Len(prevDigits[s]) - Len(mDigits[s])
      /\ Len(prevDigits[s]) <= 1 => nDuplicates[s] = 0

\* a reporting call counted 2 in a partition of three digits of one key, the
\* first two of them equal on arrival, and 0 in an empty partition
C12_Witness ==
  /\ Reported
  /\ \E s, u \in Sectors :
       /\ Len(prevDigits[s]) = 3
       /\ isEqual(prevDigits[s][1], prevDigits[s][2])
       /\ nDuplicates[s] = 2
       /\ prevDigits[u] = <<>>
       /\ nDuplicates[u] = 0

(***************************************************************************)
(* The session: loading, initialisation and the end of an event.           *)
(***************************************************************************)
Unreadable == mPedestalAndNoiseFile \in {MissingFile, CorruptFile}

\* C13: with an empty file name loading fails softly: the tables stay absent,
\* the session goes on, and every sample is filtered with pedestal 0 and noise
\* 0, so that the corrected charge is the raw signal.  With the name of a file
\* that cannot be opened or is corrupt it fails fatally: the first sample
\* inside the time window ends the session, which is never initialised and
\* never holds a digit.
C13_SoftWithoutFileFatalWhenUnreadable ==
  /\ mPedestalAndNoiseFile = "" =>
       /\ status # "fatal"
       /\ mPedestal = NullPtr /\ mNoise = NullPtr
       /\ (seenInWindow => mInitialized)
       /\ (Returned /\ InTimeWindow) =>
            (SamplePedestal = 0 /\ SampleNoise = 0
               /\ SampleCharge = lastSample.signal)
       /\ \A s \in Sectors : \A i \in 1..Len(mDigits[s]) :
            mDigits[s][i].charge \in Signals
  /\ Unreadable =>
       /\ ~mInitialized
       /\ mDigits = EmptyStore
       /\ (seenInWindow <=> status = "fatal")

\* the first sample inside the time window has ended a session that names a
\* corrupt file
C13_Witness ==
  /\ mPedestalAndNoiseFile = CorruptFile
  /\ lastOp = "updateCRU"
  /\ InTimeWindow
  /\ status = "fatal"

Emitted == lastOp = "endEvent" /\ status = "running"

NoDuplicateKeys(seq) == Cardinality(Keys(seq)) = Len(seq)

\* C14 as the specification states it: at every event boundary the sequences
\* endEvent hands to the output are, per partition, sorted by (time bin, row,
\* pad) and free of duplicates.
C14_EmittedSortedAndDuplicateFree ==
  Emitted =>
    \A s \in Sectors : LexSorted(filled[s]) /\ NoDuplicateKeys(filled[s])

\* C14: at every event boundary the sequences endEvent hands to the output
\* are, per partition, sorted by (time bin, row, pad) and hold exactly the
\* digits the partition held at the call, duplicates included: endEvent does
\* not call checkDuplicates.
C14_EmittedSortedWithDuplicates ==
  Emitted =>
    \A s \in Sectors :
      /\ LexSorted(filled[s])
      /\ SameDigits(filled[s], prevDigits[s])
      /\ NoDuplicateKeys(prevDigits[s]) <=> NoDuplicateKeys(filled[s])

\* endEvent has handed over two digits of one key with different charges
C14_Witness ==
  /\ Emitted
  /\ \E s \in Sectors :
       /\ Len(filled[s]) = 2
       /\ Key(filled[s][1]) = Key(filled[s][2])
       /\ filled[s][1].charge # filled[s][2].charge

\* C15: in endEvent the sort is done before the fill and the fill before the
\* clear: what is filled is the sorted store, all of it, and when endEvent has
\* returned every partition is empty, so that no digit of this event is
\* filled again with a later one.
C15_SortFillClear ==
  Emitted =>
    /\ filled = sortedDigits
    /\ \A s \in Sectors : Len(filled[s]) = Len(prevDigits[s])
    /\ mDigits = EmptyStore

\* endEvent has filled one digit of each sector and has left the store empty
C15_Witness ==
  /\ Emitted
  /\ \A s \in Sectors : Len(filled[s]) = 1
  /\ mDigits = EmptyStore

\* C16: over every sequence of calls initInputOutput runs at most once, in a
\* call that finds the session uninitialised, and once the session is
\* initialised it stays so and the tables and the output tree are not changed.
C16_InitialisedOnce ==
  [][ /\ nInitInputOutput' <= 1
      /\ (nInitInputOutput' # nInitInputOutput) => ~mInitialized
      /\ mInitialized =>
           /\ mInitialized'
           /\ mPedestal' = mPedestal /\ mNoise' = mNoise /\ mTree' = mTree
           /\ nInitInputOutput' = nInitInputOutput ]_vars

\* a sample inside the time window has come to a session that had loaded its
\* tables, set up its tree and accepted a digit before
C16_Witness ==
  /\ Returned /\ InTimeWindow
  /\ prevDigits # EmptyStore
  /\ mInitialized /\ nInitInputOutput = 1
  /\ mPedestal = "Pedestals" /\ mTree # NullPtr

\* C17: the time window is checked before anything is looked up or loaded: a
\* session that has seen no sample inside the window is uninitialised, has
\* called initInputOutput never, and has no table and no tree.
C17_OutsideWindowNeverInitialises ==
  ~seenInWindow =>
    /\ ~mInitialized
    /\ nInitInputOutput = 0
    /\ mPedestal = NullPtr /\ mNoise = NullPtr /\ mTree = NullPtr
    /\ status # "fatal"
    /\ mDigits = EmptyStore

\* a session that names a missing file has been given a sample outside the
\* window and no sample inside it
C17_Witness ==
  /\ ~seenInWindow
  /\ lastOp = "updateCRU"
  /\ ~InTimeWindow
  /\ mPedestalAndNoiseFile = MissingFile

\* C18: with a noise threshold above 0 a sample inside the time window whose
\* corrected charge is negative is rejected, for every noise value that is not
\* negative, the 0 of a session without noise table included: no digit is
\* appended and updateCRU returns 0, also for a masked pad.
C18_NegativeChargeRejected ==
  (Returned /\ InTimeWindow /\ mNoiseThreshold > 0 /\ SampleCharge < 0
     /\ SampleNoise >= 0)
    => (mDigits = prevDigits /\ lastRet = 0)

\* a session without noise table has rejected a sample of a masked pad whose
\* negative corrected charge lies inside the ADC window
C18_Witness ==
  /\ Returned /\ InTimeWindow
  /\ mNoiseThreshold > 0
  /\ mNoise = NullPtr
  /\ SampleCharge < 0 /\ InADCWindow
  /\ InPadMask
  /\ mDigits = prevDigits /\ lastRet = 0


(***************************************************************************)
(* The candidate selectors.                                                *)
(***************************************************************************)
\* the statuses of the three daughters in HFDsToPiKKCandidateSelector::process
PIDRejectedDsToPiKK(candidate) ==
  PIDRejected \in {BigTracksPID[candidate.index0].pidPion,
                   BigTracksPID[candidate.index1].pidKaon,
                   BigTracksPID[candidate.index2].pidKaon}

\* the statuses of the three daughters in HFDsToKKPiCandidateSelector::process
PIDRejectedDsToKKPi(candidate) ==
  PIDRejected \in {BigTracksPID[candidate.index0].pidPion,
                   BigTracksPID[candidate.index1].pidKaon,
                   BigTracksPID[candidate.index2].pidPion}

SelectedDsToPiKK(candidate) ==
  /\ HasBit(candidate.hfflag, DsToPiKK)
  /\ selectionDsToPiKK(candidate, BigTracksPID[candidate.index0],
                       BigTracksPID[candidate.index1], BigTracksPID[candidate.index2])
  /\ ~PIDRejectedDsToPiKK(candidate)

SelectedDsToKKPi(candidate) ==
  /\ HasBit(candidate.hfflag, DsToKKPi)
  /\ selectionDsToKKPi(candidate, BigTracksPID[candidate.index0],
                       BigTracksPID[candidate.index1], BigTracksPID[candidate.index2])
  /\ ~PIDRejectedDsToKKPi(candidate)

\* C19: process of either selector produces exactly one status for every
\* candidate of its table, in the order of the candidates, and the status is 1
\* if and only if the bit of the decay is set in the candidate's flag,
\* selection() returns true and the PID status of none of the three daughters
\* is PIDRejected; otherwise it is 0.
C19_OneStatusPerCandidate ==
  /\ task = "DsToPiKK" =>
       /\ Len(hfSelDsToPiKKCandidate) = Len(candidates)
       /\ \A i \in 1..Len(candidates) :
            hfSelDsToPiKKCandidate[i] =
              IF SelectedDsToPiKK(candidates[i]) THEN 1 ELSE 0
  /\ task = "DsToKKPi" =>
       /\ Len(hfSelDsToKKPiCandidate) = Len(candidates)
       /\ \A i \in 1..Len(candidates) :
            hfSelDsToKKPiCandidate[i] =
              IF SelectedDsToKKPi(candidates[i]) THEN 1 ELSE 0

\* HFDsToPiKKCandidateSelector has given 0 to a candidate with the flag that
\* passes selection() and has a daughter rejected by the PID, and 1 to the
\* candidate after it
C19_Witness ==
  /\ task = "DsToPiKK"
  /\ Len(candidates) = 2
  /\ HasBit(candidates[1].hfflag, DsToPiKK)
  /\ selectionDsToPiKK(candidates[1], BigTracksPID[candidates[1].index0],
                       BigTracksPID[candidates[1].index1],
                       BigTracksPID[candidates[1].index2])
  /\ PIDRejectedDsToPiKK(candidates[1])
  /\ hfSelDsToPiKKCandidate = <<0, 1>>

\* C20: in HFDsToKKPiCandidateSelector::selection every daughter is cut on the
\* pT threshold of its own hypothesis: a candidate that HFDsToKKPiCandidateSelector
\* accepts, and so has passed selection(), has both kaon tracks (trackKaon1,
\* trackKaon2) at or above the "pT K" cut of its bin and the pion track at or
\* above the "pT Pi" cut.
C20_DaughtersCutOnOwnHypothesis ==
  task = "DsToKKPi" =>
    \A i \in 1..Len(hfSelDsToKKPiCandidate) :
      hfSelDsToKKPiCandidate[i] = 1 =>
        LET pTBin == findBin(pTBins, candidates[i].pt)
            trackKaon1 == BigTracksPID[candidates[i].index0]
            trackKaon2 == BigTracksPID[candidates[i].index1]
            trackPion == BigTracksPID[candidates[i].index2]
        IN /\ trackKaon1.pt >= cuts(pTBin, "pT K")
           /\ trackKaon2.pt >= cuts(pTBin, "pT K")
           /\ trackPion.pt >= cuts(pTBin, "pT Pi")

(***************************************************************************)
(* The occupancy study.                                                    *)
(***************************************************************************)
RECURSIVE SumOver(_, _)
SumOver(f, S) ==
  IF S = {} THEN 0
  ELSE LET x == CHOOSE y \in S : TRUE IN f[x] + SumOver(f, S \ {x})

\* the hits of all bins of the maps, underflow and overflow bins included
Hits(histos) ==
  SumOver([layer \in Layers |-> SumOver(histos[layer].bins,
                                       DOMAIN histos[layer].bins)], Layers)

\* C21: after n calls of Occupancy::run the "TF" bin of the normalisation
\* counter written by saveHistograms holds n, and the occupancy maps written
\* hold the hits of all n timeframes.
C21_TFBinCountsTimeframes ==
  fout # <<>> =>
    /\ fout[1].counter[1] = nRun
    /\ Hits(fout[1].histos) = nClusters

\* the one cluster of the first timeframe, of a chip of an outer layer
OBFilled == nRun = 1 /\ Len(lastClusters) = 1 /\ lastClusters[1].layer >= 3
TheChip == lastClusters[1]
CoordOf(chip) ==
  <<xCoord(chip.chipInMod, chip.mod), yCoord(chip.sta, chip.ssta, chip.chipInMod)>>

\* no other chip of the layer numbered within numbering has the coordinates of
\* the chip filled
AloneOn(numbering) ==
  \A other \in ChipsOfLayerOB(TheChip.layer) :
    (other.chipInMod \in numbering /\ other # TheChip)
      => CoordOf(other) # CoordOf(TheChip)

\* C22 as the specification states it: for stave, sub-stave in {0, 1}, module
\* in 1..M and chipInMod in 0..13, fillOBmap gives distinct chips distinct
\* (xCoord, yCoord), with 0 <= xCoord <= 7 * M - 1 and 0 <= yCoord below the
\* number of y bins of the layer.
C22_OneToOneInsideAxisRange ==
  (OBFilled /\ TheChip.chipInMod \in SequentialChips) =>
    /\ AloneOn(SequentialChips)
    /\ 0 <= CoordOf(TheChip)[1]
    /\ CoordOf(TheChip)[1] <= 7 * ModulesOB(TheChip.layer) - 1
    /\ 0 <= CoordOf(TheChip)[2]
    /\ CoordOf(TheChip)[2] < nStaves[TheChip.layer + 1]

\* C22: fillOBmap gives distinct chips distinct (xCoord, yCoord), with chipInMod
\* in 0..13 and with chipInMod in 0..6 and 8..14; yCoord is from 0 to below the
\* number of y bins of the layer; xCoord is from 0 to 7 * M, and it is 7 * M,
\* past the last x bin, exactly for chipInMod 7 of module M.  The hit is in the
\* bin of the coordinates, which is the overflow bin in that case.
C22_OneToOneAndOverflowOfChip7 ==
  OBFilled =>
    LET x == CoordOf(TheChip)[1]
        y == CoordOf(TheChip)[2]
        layer == TheChip.layer
        M == ModulesOB(layer)
        histo == mOccupancyHistos[layer]
    IN /\ TheChip.chipInMod \in SequentialChips => AloneOn(SequentialChips)
       /\ TheChip.chipInMod \in SkippingChips => AloneOn(SkippingChips)
       /\ 0 <= y /\ y < nStaves[layer + 1]
       /\ 0 <= x /\ x <= 7 * M
       /\ histo.nbinsx = 7 * M
       /\ x = 7 * M <=> (TheChip.mod = M /\ TheChip.chipInMod = 7)
       /\ histo.bins = (<<FindBin(histo.nbinsx, x), y + 1>> :> 1)
       /\ FindBin(histo.nbinsx, x) = histo.nbinsx + 1
            <=> (TheChip.mod = M /\ TheChip.chipInMod = 7)

\* the hit of chip 7 of the last module of the last stave of layer 5 is in the
\* overflow bin of x
C22_Witness ==
  /\ OBFilled
  /\ TheChip = ChipInfo(5, 41, 1, 7, 7)
  /\ mOccupancyHistos[5].bins = (<<50, 167>> :> 1)

=============================================================================
